---------------------------- MODULE Spec2Model ----------------------------
(***************************************************************************)
(* Model of self_dashboard.py: a Streamlit script that loads a CSV of      *)
(* race results once (st.cache_data), filters it with the sidebar widgets  *)
(* and renders one of five pages.  Streamlit re-runs the whole script on   *)
(* every widget change, so every action below is one complete run of the   *)
(* script: load_data, sidebar, filters, selected page.                     *)
(*                                                                         *)
(* A DataFrame is a record [columns, rows]; rows is a sequence of records  *)
(* that carry their pandas index label in the field idx.  A CSV cell that  *)
(* is empty is the string NA (pandas reads it as NaN).  The columns grid   *)
(* and points, and the charts computed from means and sums of them, are    *)
(* not carried: no element of the rendered output that is modelled reads   *)
(* them.                                                                   *)
(***************************************************************************)
EXTENDS Integers, Sequences, FiniteSets, TLC

VARIABLES
    file,        \* the CSV on disk: [columns, rows]
    cache,       \* st.cache_data's entry for load_data: [has, value]
    reads,       \* how many times pd.read_csv has run in this process
    started,     \* whether the script has run at least once
    df,          \* module-level df of the latest run
    widgets,     \* the session's widget values
    filtered_df, \* module-level filtered_df of the latest run
    out          \* what the latest run rendered

vars == <<file, cache, reads, started, df, widgets, filtered_df, out>>

-----------------------------------------------------------------------------
(* Bounds of the model *)

MaxRows == 2
MaxWide == 11
MaxLong == 11

(* Program constants *)

TopConstructorsN == 10
TopSpeedsN == 10

-----------------------------------------------------------------------------
(* Values *)

NA == ""
NaN == -1
None == "<None>"
NoneYear == 0
EmptyFrame == [columns |-> {}, rows |-> <<>>]
NoEntry == [has |-> FALSE, value |-> EmptyFrame]

AllCountries == "All Countries"
AllCircuits == "All Circuits"
Pages == {"Overview", "Race Insight", "Driver Performance",
          "Constructor Analysis", "Fastest Lap"}

(* Every string of the model in Python's string order (sorted()). *)
StrOrder ==
    <<"Alfa", "BRM", "Benetton", "Blue", "Brabham", "Brawn", "Cooper",
      "Ferrari", "Ham", "Imola", "Italy", "Lotus", "Matra", "McLaren",
      "Mercedes", "Monza", "R01", "R02", "R03", "R04", "R05", "R06", "R07",
      "R08", "R09", "R10", "R11", "R12", "R13", "R14", "R15", "R16", "R17",
      "R18", "R19", "R20", "R21", "R22", "R23", "R24", "R25", "R26", "R27",
      "R28", "R29", "R30", "R31", "R32", "R33", "R34", "R35", "R36", "R37",
      "R38", "R39", "R40", "R41", "R42", "R43", "R44", "R45", "R46", "R47",
      "R48", "R49", "R50", "R51", "R52", "R53", "R54", "R55", "R56",
      "Red", "Renault", "Silverstone", "Tyrrell", "UK", "Ver", "Williams">>

StrRanks == [s \in {StrOrder[i] : i \in DOMAIN StrOrder} |->
               CHOOSE i \in DOMAIN StrOrder : StrOrder[i] = s]
StrRank(s) == StrRanks[s]

Range(s) == {s[i] : i \in DOMAIN s}

Min(S) == CHOOSE x \in S : \A y \in S : x <= y
Max(S) == CHOOSE x \in S : \A y \in S : x >= y

RECURSIVE SortedInts(_)
SortedInts(S) ==
    IF S = {} THEN <<>>
    ELSE LET m == Min(S) IN <<m>> \o SortedInts(S \ {m})

SortedStrs(S) ==
    LET ranks == SortedInts({StrRank(x) : x \in S})
    IN  [i \in DOMAIN ranks |-> StrOrder[ranks[i]]]

head(s, n) == IF Len(s) <= n THEN s ELSE SubSeq(s, 1, n)

RemoveAt(s, i) == SubSeq(s, 1, i - 1) \o SubSeq(s, i + 1, Len(s))

(* The results an unstable sort on the integer key k can give: every      *)
(* ordering of s by k, ties in any order.  s is a sequence of records     *)
(* with a field k.                                                        *)
RECURSIVE SortOrders(_, _)
SortOrders(s, ascending) ==
    IF s = <<>> THEN {<<>>}
    ELSE LET keys == {s[i].k : i \in DOMAIN s}
             best == IF ascending THEN Min(keys) ELSE Max(keys)
             ties == {i \in DOMAIN s : s[i].k = best}
         IN  UNION {{<<s[i]>> \o t : t \in SortOrders(RemoveAt(s, i), ascending)}
                    : i \in ties}

-----------------------------------------------------------------------------
(* The CSV files the process may be started on.  Three families of short   *)
(* files vary, row by row, the columns one part of the script reads; two   *)
(* families of long files have more than ten winners and more than ten     *)
(* fastest laps.                                                           *)

BaseColumns == {"year", "country", "circuit_name", "driver_name",
                "constructor_name", "race_id", "race_name", "positionOrder"}

MkRow(year, country, circuit, driver, constructor, race, position) ==
    [year |-> year, country |-> country, circuit_name |-> circuit,
     driver_name |-> driver, constructor_name |-> constructor,
     race_id |-> race, race_name |-> StrOrder[StrRank("R01") + race - 1],
     positionOrder |-> position]

WithRank(r, v) == r @@ ("rank" :> v)
WithSpeed(r, v) == r @@ ("fastestLapSpeed" :> v)

SpeedTexts == <<"200", "201", "202", "203", "204", "205", "206", "207">>
(* What float() gives for a cell text; texts outside the table do not parse. *)
NumericValue(text) ==
    IF text \in Range(SpeedTexts)
    THEN 199 + (CHOOSE i \in DOMAIN SpeedTexts : SpeedTexts[i] = text)
    ELSE NaN

(* A circuit lies in one country. *)
CountryOf(circuit) == IF circuit = "Silverstone" THEN "UK" ELSE "Italy"

FilterCells == [year : {2020, 2021}, circuit : {"Imola", "Monza", "Silverstone"}]

(* Files of results in chronological order. *)
FilterFiles ==
    {[columns |-> BaseColumns \cup {"fastestLapSpeed"},
      rows |-> [i \in 1..t[1] |->
                 WithSpeed(MkRow(t[2][i].year, CountryOf(t[2][i].circuit),
                                 t[2][i].circuit, "Ham", "Red", 1, i),
                           SpeedTexts[i])]]
     : t \in UNION {{u \in {m} \X [1..m -> FilterCells] :
                       \A i \in 1..(m - 1) : u[2][i].year <= u[2][i + 1].year}
                    : m \in 1..MaxRows}}

ResultCells == [constructor : {"Blue", "Red"}, position : {1, 3, 4}]

ResultFiles ==
    {[columns |-> BaseColumns,
      rows |-> [i \in 1..n |->
                 MkRow(2020 + ((i \div 2) % 2), "Italy", "Monza",
                       IF i % 2 = 1 THEN "Ham" ELSE "Ver",
                       f[i].constructor, 1, f[i].position)]]
     : <<n, f>> \in UNION {{<<m, g>> : g \in [1..m -> ResultCells]}
                           : m \in 1..MaxRows}}

(* The three-row table of the documentation's example. *)
ExampleFile ==
    [columns |-> BaseColumns,
     rows |-> <<MkRow(2020, "Italy", "Monza", "Ham", "Red", 1, 1),
                MkRow(2020, "Italy", "Monza", "Ver", "Blue", 1, 2),
                MkRow(2021, "Italy", "Monza", "Ver", "Blue", 2, 1)>>]

ConstructorNames ==
    <<"Williams", "Ferrari", "McLaren", "Lotus", "Brabham", "Renault",
      "Benetton", "Tyrrell", "BRM", "Cooper", "Alfa", "Mercedes", "Matra",
      "Brawn">>

(* Constructor c of n has (c + 1) \div 2 wins, every win in a race of its *)
(* own: row j is the winner of race j.  The country and circuit cells are *)
(* empty.                                                                 *)
WinsOf(c) == (c + 1) \div 2
RECURSIVE WinnersUpTo(_)
WinnersUpTo(n) ==
    IF n = 0 THEN <<>>
    ELSE WinnersUpTo(n - 1) \o [j \in 1..WinsOf(n) |-> n]

WideFiles ==
    {[columns |-> BaseColumns,
      rows |-> LET w == WinnersUpTo(n)
               IN  [j \in 1..Len(w) |->
                     MkRow(2020, NA, NA, "Ham", ConstructorNames[w[j]], j, 1)]]
     : n \in (TopConstructorsN - 1)..MaxWide}

LapCells == [rank : {1, 2}, speed : {NA, "bad", "200"}]

(* With a rank column the finishing position is the row's number; without *)
(* one, the position is what load_data copies into rank.  A file without  *)
(* the speed column is one whose cells would all be empty.                *)
LapFiles ==
    {[columns |-> BaseColumns
                    \cup (IF hasRank THEN {"rank"} ELSE {})
                    \cup (IF hasSpeed THEN {"fastestLapSpeed"} ELSE {}),
      rows |-> [i \in 1..n |->
                 LET b == MkRow(2020 + ((i - 1) % 2), "Italy", "Monza",
                                "Ham", "Red", 1,
                                IF hasRank THEN i ELSE f[i].rank)
                     r == IF hasRank THEN WithRank(b, f[i].rank) ELSE b
                 IN  IF hasSpeed THEN WithSpeed(r, f[i].speed) ELSE r]]
     : <<n, f, hasRank, hasSpeed>> \in
         UNION {{t \in {m} \X [1..m -> LapCells] \X BOOLEAN \X BOOLEAN :
                   t[4] \/ \A i \in 1..m : t[2][i].speed = NA}
                : m \in 1..MaxRows}}

(* Row i of n is the fastest lap of its race; laps come in pairs of equal *)
(* speed and, with gaps, every fourth cell is empty and every fifth is    *)
(* not a number.                                                          *)
LongFiles ==
    {[columns |-> BaseColumns \cup {"rank", "fastestLapSpeed"},
      rows |-> [i \in 1..n |->
                 WithSpeed(WithRank(MkRow(2020, "Italy", NA, "Ham", "Red",
                                          1, i), 1),
                           IF gaps /\ i % 4 = 0 THEN NA
                           ELSE IF gaps /\ i % 5 = 0 THEN "bad"
                           ELSE SpeedTexts[(i + 1) \div 2])]]
     : <<n, gaps>> \in ((TopSpeedsN - 1)..MaxLong) \X BOOLEAN}

-----------------------------------------------------------------------------
(* load_data, under st.cache_data *)

read_csv(f) ==
    [columns |-> f.columns,
     rows |-> [i \in 1..Len(f.rows) |-> f.rows[i] @@ ("idx" :> i - 1)]]

(* Mutant: rank is overwritten with positionOrder whether or not the file *)
(* has a rank column.                                                     *)
load_data_body_Overwrite(f) ==
    LET d == read_csv(f)
    IN  [columns |-> d.columns \cup {"rank"},
         rows |-> [i \in 1..Len(d.rows) |->
                    [c \in DOMAIN d.rows[i] \cup {"rank"} |->
                       IF c = "rank" THEN d.rows[i].positionOrder
                       ELSE d.rows[i][c]]]]

load_data_body(f) ==
    LET d == read_csv(f)
    IN  IF "rank" \notin d.columns
        THEN [columns |-> d.columns \cup {"rank"},
              rows |-> [i \in 1..Len(d.rows) |->
                         WithRank(d.rows[i], d.rows[i].positionOrder)]]
        ELSE d

(* Mutant: load_data without st.cache_data reads the file in every run. *)
load_data_Uncached(entry, f, n) ==
    LET d == load_data_body(f)
    IN  [value |-> d, cache |-> [has |-> TRUE, value |-> d], reads |-> n + 1]

(* One call of the memoised load_data: the value returned, and the cache  *)
(* entry and the count of reads after it.                                 *)
load_data(entry, f, n) ==
    IF entry.has
    THEN [value |-> entry.value, cache |-> entry, reads |-> n]
    ELSE LET d == load_data_body(f)
         IN  [value |-> d, cache |-> [has |-> TRUE, value |-> d],
              reads |-> n + 1]

-----------------------------------------------------------------------------
(* Sidebar *)

Column(rows, c) == {rows[i][c] : i \in DOMAIN rows}

years(d) == SortedInts(Column(d.rows, "year"))
countries(d) == SortedStrs(Column(d.rows, "country") \ {NA})
circuits(d) == SortedStrs(Column(d.rows, "circuit_name") \ {NA})
drivers(d) == SortedStrs(Column(d.rows, "driver_name") \ {NA})
constructors(d) == SortedStrs(Column(d.rows, "constructor_name") \ {NA})

CountryOptions(d) == <<AllCountries>> \o countries(d)
CircuitOptions(d) == <<AllCircuits>> \o circuits(d)

DefaultWidgets(d) ==
    [year_min |-> Min(Column(d.rows, "year")),
     year_max |-> Max(Column(d.rows, "year")),
     selected_country |-> AllCountries,
     selected_circuits |-> {AllCircuits},
     page |-> "Overview",
     selected_year |-> NoneYear, selected_race |-> None,
     selected_driver |-> None, selected_constructor |-> None]

-----------------------------------------------------------------------------
(* Filters *)

(* Mutant: the two comparisons are joined with | instead of &. *)
YearFilter_Or(d, lo, hi) ==
    [columns |-> d.columns,
     rows |-> SelectSeq(d.rows, LAMBDA r : r.year >= lo \/ r.year <= hi)]

YearFilter(d, lo, hi) ==
    [columns |-> d.columns,
     rows |-> SelectSeq(d.rows, LAMBDA r : r.year >= lo /\ r.year <= hi)]

(* Mutant: the country selection is never applied. *)
CountryFilter_Ignored(d, country) == d

CountryFilter(d, country) ==
    IF country # AllCountries
    THEN [columns |-> d.columns,
          rows |-> SelectSeq(d.rows, LAMBDA r : r.country = country)]
    ELSE d

(* Mutant: an empty selection, too, switches the circuit filter off. *)
CircuitFilter_EmptyIsAll(d, selection) ==
    IF AllCircuits \in selection \/ selection = {}
    THEN d
    ELSE [columns |-> d.columns,
          rows |-> SelectSeq(d.rows, LAMBDA r : r.circuit_name \in selection)]

CircuitFilter(d, selection) ==
    IF AllCircuits \in selection
    THEN d
    ELSE [columns |-> d.columns,
          rows |-> SelectSeq(d.rows, LAMBDA r : r.circuit_name \in selection)]

ApplyFilters(d, w) ==
    CircuitFilter(CountryFilter(YearFilter(d, w.year_min, w.year_max),
                                w.selected_country),
                  w.selected_circuits)

-----------------------------------------------------------------------------
(* Pages.  Each gives the set of outputs one run can render: a set of one *)
(* except where sort_values (quicksort, not stable) is free to order ties. *)

NoWarning == <<>>

Rendered(page, warnings, metrics, elements) ==
    [page |-> page, warnings |-> warnings, metrics |-> metrics,
     elements |-> elements, races_per_year |-> <<>>,
     top_constructors |-> <<>>, race_df |-> <<>>, top_speeds |-> <<>>]

Metric(label, value) == [label |-> label, value |-> value]

(* filtered_df.groupby("year")["race_id"].nunique() *)
races_per_year(fd) ==
    LET ys == SortedInts(Column(fd.rows, "year"))
    IN  [i \in DOMAIN ys |->
          [year |-> ys[i],
           races |-> Cardinality({fd.rows[j].race_id :
                                  j \in {x \in DOMAIN fd.rows :
                                         fd.rows[x].year = ys[i]}})]]

(* filtered_df[positionOrder == 1].groupby('constructor_name').size():    *)
(* one entry per constructor with a win, in the order of the sorted keys. *)
WinsByConstructor(fd) ==
    LET won == SelectSeq(fd.rows, LAMBDA r : r.positionOrder = 1)
        keys == SortedStrs(Column(won, "constructor_name") \ {NA})
    IN  [i \in DOMAIN keys |->
          [constructor_name |-> keys[i],
           k |-> Len(SelectSeq(won, LAMBDA r :
                                   r.constructor_name = keys[i]))]]

(* Mutant: the series is sorted in ascending order. *)
top_constructors_Ascending(fd) ==
    {head(o, TopConstructorsN) : o \in SortOrders(WinsByConstructor(fd), TRUE)}

(* .sort_values(ascending=False).head(10) *)
top_constructors(fd) ==
    {head(o, TopConstructorsN) : o \in SortOrders(WinsByConstructor(fd), FALSE)}

Overview(fd) ==
    LET ys == Column(fd.rows, "year")
        base == Rendered("Overview", NoWarning,
                    <<Metric("Data Rows", Len(fd.rows)),
                      Metric("Years min", IF ys = {} THEN NaN ELSE Min(ys)),
                      Metric("Years max", IF ys = {} THEN NaN ELSE Max(ys)),
                      Metric("Drivers",
                             Cardinality(Column(fd.rows, "driver_name") \ {NA})),
                      Metric("Constructors",
                             Cardinality(Column(fd.rows, "constructor_name")
                                         \ {NA}))>>,
                    {"Races per Year", "Top Constructors by Wins"})
    IN  {[base EXCEPT !.races_per_year = races_per_year(fd),
                      !.top_constructors = tc] : tc \in top_constructors(fd)}

YearOptions(fd) == SortedInts(Column(fd.rows, "year"))

RaceOptions(fd, year) ==
    SortedStrs(Column(SelectSeq(fd.rows, LAMBDA r : r.year = year),
                      "race_name"))

(* race_df: the rows of the selected race, .sort_values('positionOrder') *)
race_df(fd, year, race) ==
    LET rows == SelectSeq(fd.rows,
                          LAMBDA r : r.year = year /\ r.race_name = race)
        keyed == [i \in DOMAIN rows |->
                   [k |-> rows[i].positionOrder, row |-> rows[i]]]
    IN  {[i \in DOMAIN o |-> o[i].row] : o \in SortOrders(keyed, TRUE)}

RaceInsight(fd, w) ==
    {[Rendered("Race Insight", NoWarning, <<>>,
               {"Results", "Grid vs Final Position"})
        EXCEPT !.race_df = t]
     : t \in race_df(fd, w.selected_year, w.selected_race)}

(* Mutant: a podium is a finish in the first two. *)
EntityMetrics_TopTwo(rows) ==
    <<Metric("Races Participated", Len(rows)),
      Metric("Wins",
             Len(SelectSeq(rows, LAMBDA r : r.positionOrder = 1))),
      Metric("Podiums",
             Len(SelectSeq(rows, LAMBDA r : r.positionOrder \in {1, 2})))>>

(* The three metrics of the Driver Performance and Constructor Analysis   *)
(* pages over the rows of the selected entity.                            *)
EntityMetrics(rows) ==
    <<Metric("Races Participated", Len(rows)),
      Metric("Wins",
             Len(SelectSeq(rows, LAMBDA r : r.positionOrder = 1))),
      Metric("Podiums",
             Len(SelectSeq(rows, LAMBDA r : r.positionOrder \in {1, 2, 3})))>>

driver_df(fd, driver) ==
    SelectSeq(fd.rows, LAMBDA r : r.driver_name = driver)

DriverPerformance(fd, w) ==
    {Rendered("Driver Performance", NoWarning,
              EntityMetrics(driver_df(fd, w.selected_driver)),
              {"Performance Over Years", "Points Accumulation"})}

constructor_df(fd, constructor) ==
    SelectSeq(fd.rows, LAMBDA r : r.constructor_name = constructor)

ConstructorAnalysis(fd, w) ==
    {Rendered("Constructor Analysis", NoWarning,
              EntityMetrics(constructor_df(fd, w.selected_constructor)),
              {"Performance Over Years", "Top Drivers"})}

(* Mutant: a cell that is not a number becomes 0, not missing. *)
to_numeric_Zero(cell) ==
    IF cell = NA THEN NaN
    ELSE IF NumericValue(cell) = NaN THEN 0 ELSE NumericValue(cell)

(* pd.to_numeric(cell, errors='coerce') *)
to_numeric(cell) == IF cell = NA THEN NaN ELSE NumericValue(cell)

(* filtered_df[rank == 1].copy(), its speed column coerced *)
fastest_laps(fd) ==
    LET laps == SelectSeq(fd.rows, LAMBDA r : r.rank = 1)
    IN  [i \in DOMAIN laps |->
          [laps[i] EXCEPT !.fastestLapSpeed = to_numeric(@)]]

(* Mutant: the rows without a speed are dropped before the sort. *)
top_speeds_DropMissing(laps) ==
    LET shown == [i \in DOMAIN laps |->
                   [idx |-> laps[i].idx, year |-> laps[i].year,
                    race_name |-> laps[i].race_name,
                    driver_name |-> laps[i].driver_name,
                    constructor_name |-> laps[i].constructor_name,
                    fastestLapSpeed |-> laps[i].fastestLapSpeed]]
        numeric == SelectSeq(shown, LAMBDA r : r.fastestLapSpeed # NaN)
        keyed == [i \in DOMAIN numeric |->
                   [k |-> numeric[i].fastestLapSpeed, row |-> numeric[i]]]
    IN  {head([i \in DOMAIN o |-> o[i].row], TopSpeedsN)
         : o \in SortOrders(keyed, FALSE)}

(* fastest_laps.sort_values('fastestLapSpeed', ascending=False).head(10),  *)
(* shown with five of its columns: the rows with a speed in descending    *)
(* order, then the rows without one in the order they had.                *)
top_speeds(laps) ==
    LET shown == [i \in DOMAIN laps |->
                   [idx |-> laps[i].idx, year |-> laps[i].year,
                    race_name |-> laps[i].race_name,
                    driver_name |-> laps[i].driver_name,
                    constructor_name |-> laps[i].constructor_name,
                    fastestLapSpeed |-> laps[i].fastestLapSpeed]]
        numeric == SelectSeq(shown, LAMBDA r : r.fastestLapSpeed # NaN)
        missing == SelectSeq(shown, LAMBDA r : r.fastestLapSpeed = NaN)
        keyed == [i \in DOMAIN numeric |->
                   [k |-> numeric[i].fastestLapSpeed, row |-> numeric[i]]]
    IN  {head([i \in DOMAIN o |-> o[i].row] \o missing, TopSpeedsN)
         : o \in SortOrders(keyed, FALSE)}

NoColumnWarning == "Fastest lap speed data is not available in the dataset"
NoDataWarning ==
    "No fastest lap speed data available for the selected filters"

FastestLap(fd) ==
    IF "fastestLapSpeed" \notin fd.columns
    THEN {Rendered("Fastest Lap", <<NoColumnWarning>>, <<>>, {})}
    ELSE LET laps == fastest_laps(fd)
         IN  IF laps = <<>> \/ \A i \in DOMAIN laps : laps[i].fastestLapSpeed = NaN
             THEN {Rendered("Fastest Lap", <<NoDataWarning>>, <<>>, {})}
             ELSE {[Rendered("Fastest Lap", NoWarning, <<>>,
                             {"Top 10 Fastest Laps", "Fastest Lap Speed Trend",
                              "Fastest Drivers",
                              "Fastest Lap Speed Distribution"})
                      EXCEPT !.top_speeds = t] : t \in top_speeds(laps)}

RenderPage(fd, w) ==
    CASE w.page = "Overview" -> Overview(fd)
      [] w.page = "Race Insight" -> RaceInsight(fd, w)
      [] w.page = "Driver Performance" -> DriverPerformance(fd, w)
      [] w.page = "Constructor Analysis" -> ConstructorAnalysis(fd, w)
      [] w.page = "Fastest Lap" -> FastestLap(fd)

-----------------------------------------------------------------------------
(* The selectboxes of the page.  A selectbox keeps the session's value    *)
(* while it is shown with the same options, and otherwise returns its     *)
(* first option, or None when it has none.                                *)

selectbox(options, value, kept, none) ==
    IF kept /\ value \in Range(options) THEN value
    ELSE IF options = <<>> THEN none ELSE options[1]

PageWidgets(d, fd, req) ==
    LET same == started /\ widgets.page = req.page
        sy == selectbox(YearOptions(fd), req.selected_year,
                        same /\ YearOptions(fd) = YearOptions(filtered_df),
                        NoneYear)
        sr == selectbox(RaceOptions(fd, sy), req.selected_race,
                        same /\ RaceOptions(fd, sy)
                                = RaceOptions(filtered_df, widgets.selected_year),
                        None)
        blank == [req EXCEPT !.selected_year = NoneYear, !.selected_race = None,
                             !.selected_driver = None,
                             !.selected_constructor = None]
    IN  CASE req.page = "Race Insight" ->
               [blank EXCEPT !.selected_year = sy, !.selected_race = sr]
          [] req.page = "Driver Performance" ->
               [blank EXCEPT !.selected_driver =
                   selectbox(drivers(d), req.selected_driver, same, None)]
          [] req.page = "Constructor Analysis" ->
               [blank EXCEPT !.selected_constructor =
                   selectbox(constructors(d), req.selected_constructor, same,
                             None)]
          [] OTHER -> blank

-----------------------------------------------------------------------------
(* One run of the script, top to bottom, with the widget values req.      *)

Rerun(req) ==
    LET loaded == load_data(cache, file, reads)
        d == loaded.value
        fd == ApplyFilters(d, req)
        w == PageWidgets(d, fd, req)
    IN  /\ cache' = loaded.cache
        /\ reads' = loaded.reads
        /\ df' = d
        /\ filtered_df' = fd
        /\ widgets' = w
        /\ out' \in RenderPage(fd, w)
        /\ started' = TRUE
        /\ UNCHANGED file

(* The browser opens the app: the first run, every widget at its default. *)
FirstRun ==
    /\ ~started
    /\ Rerun(DefaultWidgets(load_data(cache, file, reads).value))

SetYearRange ==
    /\ started
    /\ \E a \in Range(years(df)), b \in Range(years(df)) :
          /\ a <= b
          /\ Rerun([widgets EXCEPT !.year_min = a, !.year_max = b])

SetCountry ==
    /\ started
    /\ \E c \in Range(CountryOptions(df)) :
          Rerun([widgets EXCEPT !.selected_country = c])

SetCircuits ==
    /\ started
    /\ \E s \in SUBSET Range(CircuitOptions(df)) :
          Rerun([widgets EXCEPT !.selected_circuits = s])

Navigate ==
    /\ started
    /\ \E p \in Pages : Rerun([widgets EXCEPT !.page = p])

SelectYear ==
    /\ started
    /\ widgets.page = "Race Insight"
    /\ \E y \in Range(YearOptions(filtered_df)) :
          Rerun([widgets EXCEPT !.selected_year = y])

SelectRace ==
    /\ started
    /\ widgets.page = "Race Insight"
    /\ \E r \in Range(RaceOptions(filtered_df, widgets.selected_year)) :
          Rerun([widgets EXCEPT !.selected_race = r])

SelectDriver ==
    /\ started
    /\ widgets.page = "Driver Performance"
    /\ \E x \in Range(drivers(df)) :
          Rerun([widgets EXCEPT !.selected_driver = x])

SelectConstructor ==
    /\ started
    /\ widgets.page = "Constructor Analysis"
    /\ \E x \in Range(constructors(df)) :
          Rerun([widgets EXCEPT !.selected_constructor = x])

Next ==
    \/ FirstRun
    \/ SetYearRange
    \/ SetCountry
    \/ SetCircuits
    \/ Navigate
    \/ SelectYear
    \/ SelectRace
    \/ SelectDriver
    \/ SelectConstructor

InitOn(files) ==
    /\ file \in files
    /\ cache = NoEntry
    /\ reads = 0
    /\ started = FALSE
    /\ df = EmptyFrame
    /\ widgets = [year_min |-> NoneYear, year_max |-> NoneYear,
                  selected_country |-> AllCountries,
                  selected_circuits |-> {AllCircuits}, page |-> "Overview",
                  selected_year |-> NoneYear, selected_race |-> None,
                  selected_driver |-> None, selected_constructor |-> None]
    /\ filtered_df = EmptyFrame
    /\ out = Rendered("Overview", NoWarning, <<>>, {})

InitFilter == InitOn(FilterFiles)
InitResults == InitOn(ResultFiles \cup WideFiles \cup {ExampleFile})
InitLaps == InitOn(LapFiles \cup LongFiles)

Init == InitOn(FilterFiles \cup ResultFiles \cup WideFiles \cup {ExampleFile}
               \cup LapFiles \cup LongFiles)

SpecFilter == InitFilter /\ [][Next]_vars
SpecResults == InitResults /\ [][Next]_vars
SpecLaps == InitLaps /\ [][Next]_vars
Spec == Init /\ [][Next]_vars

-----------------------------------------------------------------------------
(* Properties *)

View == filtered_df.rows
InYearRange(r) == widgets.year_min <= r.year /\ r.year <= widgets.year_max
CountryKept(r) ==
    widgets.selected_country = AllCountries
        \/ r.country = widgets.selected_country
(* The rows of df the year-range and country predicates keep, in order. *)
YearCountryRows ==
    SelectSeq(df.rows, LAMBDA r : InYearRange(r) /\ CountryKept(r))
FullYearRange ==
    /\ widgets.year_min = Min(Column(df.rows, "year"))
    /\ widgets.year_max = Max(Column(df.rows, "year"))
MetricOf(label) ==
    LET i == CHOOSE j \in DOMAIN out.metrics : out.metrics[j].label = label
    IN  out.metrics[i].value
HowMany(rows, Test(_)) == Cardinality({i \in DOMAIN rows : Test(rows[i])})

(* C1: every row of the filtered view has year_min <= year <= year_max,   *)
(* both ends inclusive, and is a row of the loaded table, unaltered and   *)
(* in the table's order.                                                  *)
C1_YearRangeSubset ==
    started =>
        /\ \A i \in DOMAIN View :
              /\ InYearRange(View[i])
              /\ View[i].idx + 1 \in DOMAIN df.rows
              /\ df.rows[View[i].idx + 1] = View[i]
        /\ \A i, j \in DOMAIN View : i < j => View[i].idx < View[j].idx

C1_Witness ==
    /\ started
    /\ widgets.year_min = widgets.year_max
    /\ View # <<>>
    /\ Len(View) < Len(df.rows)
    /\ \E i \in DOMAIN df.rows : df.rows[i].year > widgets.year_max

(* C2 as stated: with the sentinel selected or nothing selected the view  *)
(* is the year-and-country view; otherwise a row is kept exactly when its *)
(* circuit_name is selected.                                              *)
C2_Original ==
    started =>
        View = IF AllCircuits \in widgets.selected_circuits
                  \/ widgets.selected_circuits = {}
               THEN YearCountryRows
               ELSE SelectSeq(YearCountryRows,
                              LAMBDA r : r.circuit_name
                                           \in widgets.selected_circuits)

(* C2 amended: only the sentinel switches the circuit filter off; without *)
(* it a row is kept exactly when its circuit_name is selected, so that an *)
(* empty selection keeps no row.                                          *)
C2_SentinelOnly ==
    started =>
        /\ View = IF AllCircuits \in widgets.selected_circuits
                  THEN YearCountryRows
                  ELSE SelectSeq(YearCountryRows,
                                 LAMBDA r : r.circuit_name
                                              \in widgets.selected_circuits)
        /\ widgets.selected_circuits = {} => View = <<>>

C2_Witness ==
    /\ started
    /\ widgets.selected_circuits = {}
    /\ YearCountryRows # <<>>
    /\ View = <<>>

(* C3: when the filters leave no row, or the selected driver or           *)
(* constructor has none, the page shows a notice and no metric, table or  *)
(* chart.  Stated for the runs with a circuit selected, where C2's empty  *)
(* selection plays no part.                                               *)
SliceEmpty ==
    \/ View = <<>>
    \/ /\ widgets.page = "Driver Performance"
       /\ \A i \in DOMAIN View : View[i].driver_name # widgets.selected_driver
    \/ /\ widgets.page = "Constructor Analysis"
       /\ \A i \in DOMAIN View :
             View[i].constructor_name # widgets.selected_constructor

C3_NoDataNotice ==
    (started /\ SliceEmpty /\ widgets.selected_circuits # {}) =>
        /\ out.warnings # <<>>
        /\ out.metrics = <<>>
        /\ out.elements = {}

(* C4 as stated: a selected country that appears in the table gives a     *)
(* non-empty view of rows of that country, whatever the year range and    *)
(* the circuit selection.  Stated for the runs with a circuit selected,   *)
(* where C2's empty selection plays no part.                              *)
C4_Original ==
    (started /\ widgets.selected_country # AllCountries
             /\ widgets.selected_circuits # {}) =>
        /\ View # <<>>
        /\ \A i \in DOMAIN View : View[i].country = widgets.selected_country

(* C4 amended: every row of the view has the selected country; the view   *)
(* is non-empty exactly when a row of that country lies in the year range *)
(* and passes the circuit filter, as it does under the full year range    *)
(* with the circuit sentinel; a country absent from the table gives an    *)
(* empty view.                                                            *)
AbsentCountries == {"France", "Spain"} \ Column(df.rows, "country")

C4_CountryExact ==
    started =>
        /\ widgets.selected_country # AllCountries =>
              /\ \A i \in DOMAIN View :
                    View[i].country = widgets.selected_country
              /\ View # <<>> <=>
                    \E i \in DOMAIN df.rows :
                       /\ df.rows[i].country = widgets.selected_country
                       /\ InYearRange(df.rows[i])
                       /\ \/ AllCircuits \in widgets.selected_circuits
                          \/ df.rows[i].circuit_name
                               \in widgets.selected_circuits
              /\ (FullYearRange /\ AllCircuits \in widgets.selected_circuits)
                    => View # <<>>
        /\ \A c \in AbsentCountries :
              ApplyFilters(df, [widgets EXCEPT !.selected_country = c]).rows
                = <<>>

C4_Witness ==
    /\ started
    /\ widgets.selected_country # AllCountries
    /\ View # <<>>
    /\ Len(View) < Len(YearFilter(df, widgets.year_min, widgets.year_max).rows)

(* The fastest laps of the view: its rows with rank 1. *)
RankOne == SelectSeq(View, LAMBDA r : r.rank = 1)
IsNumber(cell) == cell # NA /\ cell \in Range(SpeedTexts)
LapTablesShown ==
    started /\ widgets.page = "Fastest Lap" /\ out.warnings = NoWarning
Least(a, b) == IF a <= b THEN a ELSE b

(* C5 as stated: the top-10 table is strictly descending by speed, holds  *)
(* no row without a speed, and has min(10, n) rows, n the fastest laps    *)
(* that have a numeric speed.                                             *)
C5_Original ==
    LapTablesShown =>
        LET t == out.top_speeds
        IN  /\ Len(t) = Least(TopSpeedsN,
                              HowMany(RankOne,
                                      LAMBDA r : IsNumber(r.fastestLapSpeed)))
            /\ \A i \in DOMAIN t : t[i].fastestLapSpeed # NaN
            /\ \A i \in 1..(Len(t) - 1) :
                  t[i].fastestLapSpeed > t[i + 1].fastestLapSpeed

(* C5 amended: the table has min(10, m) rows, m the fastest laps of the   *)
(* view with or without a speed; each is a fastest lap with its coerced   *)
(* speed; speeds never increase down the table (equal speeds may be       *)
(* adjacent), rows without a speed come after every row with one, and no  *)
(* lap left out is faster than a lap shown.                               *)
C5_TopSpeeds ==
    LapTablesShown =>
        LET t == out.top_speeds
            shown == {t[i].idx : i \in DOMAIN t}
        IN  /\ Len(t) = Least(TopSpeedsN, Len(RankOne))
            /\ \A i \in DOMAIN t :
                  \E j \in DOMAIN RankOne :
                     /\ RankOne[j].idx = t[i].idx
                     /\ t[i].fastestLapSpeed
                          = to_numeric(RankOne[j].fastestLapSpeed)
            /\ \A i, j \in DOMAIN t : i # j => t[i].idx # t[j].idx
            /\ \A i, j \in DOMAIN t :
                  (i < j /\ t[j].fastestLapSpeed # NaN) =>
                      /\ t[i].fastestLapSpeed # NaN
                      /\ t[i].fastestLapSpeed >= t[j].fastestLapSpeed
            /\ \A j \in DOMAIN RankOne :
                  (RankOne[j].idx \notin shown
                      /\ IsNumber(RankOne[j].fastestLapSpeed)) =>
                     \A i \in DOMAIN t :
                        /\ t[i].fastestLapSpeed # NaN
                        /\ t[i].fastestLapSpeed
                             >= to_numeric(RankOne[j].fastestLapSpeed)

C5_Witness ==
    /\ LapTablesShown
    /\ Len(RankOne) > TopSpeedsN
    /\ Len(out.top_speeds) = TopSpeedsN
    /\ out.top_speeds[TopSpeedsN].fastestLapSpeed = NaN
    /\ \E i \in 1..(TopSpeedsN - 1) :
          /\ out.top_speeds[i].fastestLapSpeed # NaN
          /\ out.top_speeds[i].fastestLapSpeed
               = out.top_speeds[i + 1].fastestLapSpeed

(* C6: the Fastest Lap page shows one warning and no table or chart when  *)
(* the table has no fastestLapSpeed column, when the view has no row with *)
(* rank 1, and when no rank-1 row of the view has a numeric speed; in     *)
(* every other case it shows no warning and renders its tables and        *)
(* charts.                                                                *)
LapElements == {"Top 10 Fastest Laps", "Fastest Lap Speed Trend",
                "Fastest Drivers", "Fastest Lap Speed Distribution"}

NoLapData ==
    IF "fastestLapSpeed" \notin df.columns THEN TRUE
    ELSE \/ RankOne = <<>>
         \/ \A i \in DOMAIN RankOne : ~IsNumber(RankOne[i].fastestLapSpeed)

C6_LapNoData ==
    (started /\ widgets.page = "Fastest Lap") =>
        IF NoLapData
        THEN /\ Len(out.warnings) = 1
             /\ out.elements = {}
             /\ out.top_speeds = <<>>
        ELSE /\ out.warnings = NoWarning
             /\ out.elements = LapElements
             /\ out.top_speeds # <<>>

C6_Witness ==
    /\ started
    /\ widgets.page = "Fastest Lap"
    /\ "fastestLapSpeed" \in df.columns
    /\ RankOne # <<>>
    /\ \E i \in DOMAIN RankOne : RankOne[i].fastestLapSpeed = "bad"
    /\ out.warnings = <<NoDataWarning>>

(* C7: in every run the file has been read at most once, the run's df is  *)
(* the cached table, and from the second run on df and the cache are what *)
(* they were after the first: no run, filter or page changes them.        *)
C7_LoadOnce ==
    [][/\ reads' <= 1
       /\ cache'.has
       /\ df' = cache'.value
       /\ started => (df' = df /\ cache' = cache /\ reads' = reads)]_vars

C7_Witness ==
    /\ started
    /\ reads = 1
    /\ LapTablesShown
    /\ \E i \in DOMAIN RankOne : RankOne[i].fastestLapSpeed = "bad"
    /\ \E i \in DOMAIN df.rows : df.rows[i].fastestLapSpeed = "bad"

(* C8: the loaded table is the file's rows, in order, with a rank column: *)
(* the file's own when it has one, else positionOrder; and with the full  *)
(* year range and both sentinels the view is the loaded table row for row. *)
C8_RoundTrip ==
    started =>
        /\ df.columns = file.columns \cup {"rank"}
        /\ Len(df.rows) = Len(file.rows)
        /\ \A i \in DOMAIN df.rows :
              /\ \A c \in file.columns : df.rows[i][c] = file.rows[i][c]
              /\ df.rows[i].rank = IF "rank" \in file.columns
                                   THEN file.rows[i].rank
                                   ELSE file.rows[i].positionOrder
        /\ (/\ FullYearRange
            /\ widgets.selected_country = AllCountries
            /\ widgets.selected_circuits = {AllCircuits}) => View = df.rows

C8_Witness ==
    /\ started
    /\ FullYearRange
    /\ widgets.selected_country = AllCountries
    /\ widgets.selected_circuits = {AllCircuits}
    /\ "rank" \in file.columns
    /\ Len(View) > 1
    /\ \E i \in DOMAIN View : View[i].rank # View[i].positionOrder

(* C9: on the Driver Performance and Constructor Analysis pages Wins is   *)
(* the number of the selected entity's rows of the view with              *)
(* positionOrder 1, Podiums the number with positionOrder 1, 2 or 3, and  *)
(* Wins <= Podiums <= Races Participated.                                 *)
OfEntity(r) ==
    IF widgets.page = "Driver Performance"
    THEN r.driver_name = widgets.selected_driver
    ELSE r.constructor_name = widgets.selected_constructor

C9_WinsPodiums ==
    (started /\ widgets.page \in {"Driver Performance", "Constructor Analysis"})
    =>
        /\ MetricOf("Races Participated") = HowMany(View, OfEntity)
        /\ MetricOf("Wins")
             = HowMany(View, LAMBDA r : OfEntity(r) /\ r.positionOrder = 1)
        /\ MetricOf("Podiums")
             = HowMany(View, LAMBDA r : OfEntity(r)
                                          /\ r.positionOrder \in {1, 2, 3})
        /\ MetricOf("Wins") <= MetricOf("Podiums")
        /\ MetricOf("Podiums") <= MetricOf("Races Participated")

C9_Witness ==
    /\ started
    /\ widgets.page = "Constructor Analysis"
    /\ MetricOf("Wins") = 1
    /\ MetricOf("Podiums") = 2
    /\ MetricOf("Races Participated") = 2
    /\ Len(View) = 3

(* The wins of a constructor in the view, and the constructors that won. *)
WinsIn(c) ==
    HowMany(View, LAMBDA r : r.constructor_name = c /\ r.positionOrder = 1)
Winners == {c \in Column(View, "constructor_name") \ {NA} : WinsIn(c) > 0}
OnExample ==
    /\ file = ExampleFile
    /\ FullYearRange
    /\ widgets.selected_country = AllCountries
    /\ AllCircuits \in widgets.selected_circuits

(* The part of C10 the sort does decide: the series lists constructors    *)
(* with a win, each once and with its number of wins, in non-increasing   *)
(* order of wins, min(10, winners) of them, none left out with more wins  *)
(* than one listed.                                                       *)
TopByWins(t) ==
    /\ Len(t) = Least(TopConstructorsN, Cardinality(Winners))
    /\ \A i \in DOMAIN t :
          /\ t[i].constructor_name \in Winners
          /\ t[i].k = WinsIn(t[i].constructor_name)
    /\ \A i, j \in DOMAIN t :
          i < j => /\ t[i].constructor_name # t[j].constructor_name
                   /\ t[i].k >= t[j].k
    /\ \A c \in Winners \ {t[i].constructor_name : i \in DOMAIN t} :
          \A i \in DOMAIN t : t[i].k >= WinsIn(c)

(* C10 as stated: moreover constructors with equal wins keep the order of *)
(* the group-by (its sorted keys), also across the cut at ten, and the    *)
(* example gives Blue: 1 then Red: 1.                                     *)
C10_Original ==
    (started /\ widgets.page = "Overview") =>
        LET t == out.top_constructors
        IN  /\ TopByWins(t)
            /\ \A i, j \in DOMAIN t :
                  (i < j /\ t[i].k = t[j].k) =>
                     StrRank(t[i].constructor_name)
                       < StrRank(t[j].constructor_name)
            /\ \A c \in Winners \ {t[i].constructor_name : i \in DOMAIN t} :
                  \A i \in DOMAIN t :
                     t[i].k = WinsIn(c) =>
                        StrRank(t[i].constructor_name) < StrRank(c)
            /\ OnExample =>
                  t = <<[constructor_name |-> "Blue", k |-> 1],
                        [constructor_name |-> "Red", k |-> 1]>>

(* C10 amended: as stated but for the order of constructors with equal    *)
(* wins, which the sort leaves open, as it does which of them pass the    *)
(* cut at ten; the example gives Blue: 1 and Red: 1 in either order.      *)
C10_TopConstructors ==
    (started /\ widgets.page = "Overview") =>
        LET t == out.top_constructors
        IN  /\ TopByWins(t)
            /\ OnExample =>
                  {t[i] : i \in DOMAIN t}
                    = {[constructor_name |-> "Blue", k |-> 1],
                       [constructor_name |-> "Red", k |-> 1]}

C10_Witness ==
    /\ started
    /\ widgets.page = "Overview"
    /\ Cardinality(Winners) > TopConstructorsN
    /\ Len(out.top_constructors) = TopConstructorsN
    /\ \E i \in 1..(TopConstructorsN - 1) :
          /\ out.top_constructors[i].k = out.top_constructors[i + 1].k
          /\ StrRank(out.top_constructors[i].constructor_name)
               > StrRank(out.top_constructors[i + 1].constructor_name)

=============================================================================
